---- MODULE Spec2Model ----
(***************************************************************************)
(* DualSense device manager (src/src/device_manager.rs) over the async     *)
(* HID session layer (src/src/dualsense/async_hid.rs).                     *)
(*                                                                         *)
(* Scheduling: the manager's async fns are cooperative tasks.  A task runs *)
(* atomically from one suspension to the next; it suspends only at an      *)
(* .await that is not ready: a device I/O, the join of a spawned task, the *)
(* hotplug stream.  opened_devices.lock().await is uncontended at every    *)
(* suspension (the guard is a temporary of one statement), so it never     *)
(* suspends.  The completion of an I/O is a step of the environment, taken *)
(* while the device is in the state that decides the outcome; the task     *)
(* that awaits it resumes in a later step.                                 *)
(*                                                                         *)
(* The event handler is set (set_event_handler) before any task starts.    *)
(*                                                                         *)
(* Specifications: Spec is the device manager; SpecPnp is the manager with *)
(* watch_pnp as its only task; SpecCodec applies one function of the       *)
(* report codec (src/src/dualsense/proto.rs) or of a session (async_hid.rs,*)
(* hid.rs, dualsense.rs) to arguments drawn from what a device can send;   *)
(* SpecTest is the two concurrent read loops of                            *)
(* tests::concurrent_read_input_and_feature; SpecOpen is tests::test_open; *)
(* SpecTray is the event loop of the tray shell (src/src/tray_icon.rs).    *)
(***************************************************************************)
EXTENDS Integers, Sequences, FiniteSets, TLC

\* ---------------------------------------------------------------- bounds
NumDevices == 2
MaxQueue == 2
MaxHotplug == 1
MaxOpenAll == 1
MaxRefresh == 1

Devices == 1..NumDevices

\* ------------------------------------------------------------- constants
DS_INPUT_REPORT_USB_SIZE == 64
DS_INPUT_REPORT_BT_SIZE == 78

\* A report length that is neither framing's (the 10-byte simple report).
ForeignSizes == {10}

Kinds == {"USB", "BT"}
NoSession == "NoSession"
NoTask == "NoTask"
NoDevice == NumDevices + 1
Callers == {"oa", "pnp", "us"}

\* The transport a physical device is attached by.
Transport(d) == IF d % 2 = 1 THEN "USB" ELSE "BT"

\* ------------------------------------------------------- results (HidResult)
Ok(v) == [ok |-> TRUE, val |-> v, err |-> "none"]
Err(e) == [ok |-> FALSE, val |-> "none", err |-> e]
\* An await that never resolves: the future stays Pending.
Blocked == [ok |-> FALSE, val |-> "none", err |-> "blocked"]

\* What the device side of one I/O call does: it answers with a value, fails,
\* or never answers.
IoOk(v) == [st |-> "ok", v |-> v]
IoErr == [st |-> "io_err", v |-> 0]
IoHang == [st |-> "hang", v |-> 0]

\* ------------------------------------------------------- session layer
from_report_size(size) ==
    IF size = DS_INPUT_REPORT_BT_SIZE THEN "BT"
    ELSE IF size = DS_INPUT_REPORT_USB_SIZE THEN "USB"
    ELSE "None"

report_size(kind) ==
    IF kind = "USB" THEN DS_INPUT_REPORT_USB_SIZE ELSE DS_INPUT_REPORT_BT_SIZE

RaceWithoutTimer(out, err) ==
    IF out.st = "hang" THEN [ok |-> FALSE, val |-> "none", err |-> "blocked"]
    ELSE IF out.st = "io_err" THEN Err("Io")
    ELSE Ok(out.v)

\* io.or(async { Timer::after(..).await; Err(err) }).await : an I/O that never
\* answers loses the race against the timer.
RaceTimer(out, err) ==
    IF out.st = "hang" THEN Err(err)
    ELSE IF out.st = "io_err" THEN Err("Io")
    ELSE Ok(out.v)

\* io.await with no timer.
NoTimer(out) ==
    IF out.st = "hang" THEN Blocked
    ELSE IF out.st = "io_err" THEN Err("Io")
    ELSE Ok(out.v)

QuestionMark(res) == res

\* let _ = io.await : the result of a completed call is dropped, an error
\* included; a call that never completes still holds the caller.
LetUnderscore(res) == IF res.err = "blocked" THEN Blocked ELSE Ok("dropped")

\* DualSense::open_device: whether read_feature_report is called, that is
\* whether the function gets to `if connection_type == BT` and takes it.
feature_requested(o, r) ==
    RaceTimer(o, "NotConnected").ok /\ RaceTimer(r, "Disconnected").ok
        /\ from_report_size(r.v) = "BT"

\* DualSense::open_device: o, r, f are the outcomes of open_readable, of the
\* first read_input_report and of read_feature_report.
open_device(o, r, f) ==
    LET reader == RaceTimer(o, "NotConnected")
        size == RaceTimer(r, "Disconnected")
        connection_type == from_report_size(size.val)
        feature == LetUnderscore(NoTimer(f))
    IN  IF ~reader.ok THEN reader
        ELSE IF ~size.ok THEN size
        ELSE IF connection_type = "None" THEN Err("Message")
        ELSE IF feature_requested(o, r) /\ ~feature.ok THEN feature
        ELSE Ok(connection_type)

\* DualSense::open_device_id: q is the outcome of query_devices ("found",
\* "none": no matching device, "io_err").
open_device_id_session(q, o, r, f) ==
    IF q = "io_err" THEN Err("Io")
    ELSE IF q = "none" THEN Err("NotConnected")
    ELSE open_device(o, r, f)

\* DualSense::connect: the connection carries the session's cached kind.
connect(kind, o) ==
    LET reader == RaceTimer(o, "NotConnected")
    IN  IF ~reader.ok THEN reader ELSE Ok(kind)

\* ------------------------------------------------------- report codec
\* u8 / u16 arithmetic: &, |, <<, >> on unsigned integers of `width` bits.
RECURSIVE BitAnd(_, _)
BitAnd(a, b) ==
    IF a = 0 \/ b = 0 THEN 0
    ELSE (a % 2) * (b % 2) + 2 * BitAnd(a \div 2, b \div 2)

RECURSIVE BitOr(_, _)
BitOr(a, b) ==
    IF a = 0 THEN b
    ELSE IF b = 0 THEN a
    ELSE (IF a % 2 = 1 \/ b % 2 = 1 THEN 1 ELSE 0) + 2 * BitOr(a \div 2, b \div 2)

Shl(a, n, width) == (a * 2^n) % 2^width
Shr(a, n) == a \div 2^n

Byte == 0..255

DS_INPUT_REPORT_USB == 1
DS_INPUT_REPORT_BT == 49
DS_STATUS_BATTERY_CAPACITY == 15
DS_STATUS_CHARGING == 240
DS_STATUS_CHARGING_SHIFT == 4

\* A #[repr(C)] struct of byte-aligned fields: <<name, size>> in declaration
\* order; a field lies right after the fields before it.
RECURSIVE SizeOf(_)
SizeOf(layout) ==
    IF layout = <<>> THEN 0 ELSE Head(layout)[2] + SizeOf(Tail(layout))

RECURSIVE OffsetOf(_, _)
OffsetOf(layout, field) ==
    IF Head(layout)[1] = field THEN 0
    ELSE Head(layout)[2] + OffsetOf(Tail(layout), field)

TouchPointLayout ==
    << <<"contact", 1>>, <<"x_lo", 1>>, <<"xhi_ylo", 1>>, <<"y_hi", 1>> >>

InputReportLayout ==
    << <<"x", 1>>, <<"y", 1>>, <<"rx", 1>>, <<"ry", 1>>, <<"z", 1>>, <<"rz", 1>>,
       <<"seq_number", 1>>, <<"buttons", 4>>, <<"reserved", 4>>,
       <<"gyro", 6>>, <<"accel", 6>>, <<"sensor_timestamp", 4>>, <<"reserved2", 1>>,
       <<"points", 2 * SizeOf(TouchPointLayout)>>,
       <<"reserved3", 12>>, <<"status", 1>>, <<"reserved4", 10>> >>

DS_INPUT_REPORT_SIZE == SizeOf(InputReportLayout)

DualSenseInputReportUSB ==
    << <<"report_id", 1>>, <<"input_report", DS_INPUT_REPORT_SIZE>>, <<"padding", 14>> >>

DualSenseInputReportBT_NoPadding ==
    << <<"report_id", 1>>, <<"input_report", DS_INPUT_REPORT_SIZE>>, <<"padding2", 14>> >>

DualSenseInputReportBT ==
    << <<"report_id", 1>>, <<"padding", 1>>, <<"input_report", DS_INPUT_REPORT_SIZE>>,
       <<"padding2", 13>> >>

FrameLayout(kind) ==
    IF kind = "USB" THEN DualSenseInputReportUSB ELSE DualSenseInputReportBT

touch_x_low_byte(p) == p.x_lo

touch_y_nibble_high(p) == BitOr(Shl(BitAnd(p.xhi_ylo, 15), 4, 16), p.y_hi)

\* DualSenseTouchPoint::x on the record's bytes
touch_x(p) ==
    LET x_hi == Shr(p.xhi_ylo, 4)
        x_lo == p.x_lo
    IN  BitOr(Shl(x_hi, 8, 16), x_lo)

\* DualSenseTouchPoint::y
touch_y(p) ==
    LET y_lo == BitAnd(p.xhi_ylo, 15)
        y_hi == p.y_hi
    IN  BitOr(Shl(y_hi, 4, 16), y_lo)

\* DualSenseInputReport::battery: (capacity, charging), both u8
battery(status) ==
    LET s == status
        capacity == BitAnd(s, DS_STATUS_BATTERY_CAPACITY)
        charging == Shr(BitAnd(s, DS_STATUS_CHARGING), DS_STATUS_CHARGING_SHIFT)
    IN  <<capacity, charging>>

\* The fields read from the bytes of a buffer (a function on 0..Len-1) that lie
\* at `base`: a DualSenseTouchPoint, a DualSenseInputReport.
TouchPointAt(buf, base) ==
    [contact |-> buf[base + OffsetOf(TouchPointLayout, "contact")],
     x_lo |-> buf[base + OffsetOf(TouchPointLayout, "x_lo")],
     xhi_ylo |-> buf[base + OffsetOf(TouchPointLayout, "xhi_ylo")],
     y_hi |-> buf[base + OffsetOf(TouchPointLayout, "y_hi")]]

InputReportAt(buf, base) ==
    [x |-> buf[base + OffsetOf(InputReportLayout, "x")],
     seq_number |-> buf[base + OffsetOf(InputReportLayout, "seq_number")],
     points |-> [k \in 0..1 |->
                   TouchPointAt(buf, base + OffsetOf(InputReportLayout, "points")
                                          + k * SizeOf(TouchPointLayout))],
     status |-> buf[base + OffsetOf(InputReportLayout, "status")],
     last |-> buf[base + DS_INPUT_REPORT_SIZE - 1]]

\* let mut buf = [0u8; DS_INPUT_REPORT_BT_SIZE]; the read writes the `size`
\* bytes of the device's report at its start.
ReadBuffer(data, size) ==
    [i \in 0..(DS_INPUT_REPORT_BT_SIZE - 1) |-> IF i < size THEN data[i] ELSE 0]

\* transmute!(buf) to the framing of `kind`, then .input_report
transmute_input_report(kind, buf) ==
    InputReportAt(buf, OffsetOf(FrameLayout(kind), "input_report"))

read_input_report_strict(kind, r) ==
    LET size == RaceTimer(r, "Disconnected")
    IN  IF ~size.ok THEN size
        ELSE IF size.val # report_size(kind) THEN Err("Disconnected")
        ELSE Ok([offset |-> OffsetOf(FrameLayout(kind), "input_report"), size |-> size.val])

\* DualSenseConnection::read_input_report: the report is cut from the buffer
\* at the offset of the connection's cached kind.
read_input_report(kind, r) ==
    LET size == RaceTimer(r, "Disconnected")
    IN  IF ~size.ok THEN size
        ELSE IF size.val = 0 THEN Err("Disconnected")
        ELSE Ok([offset |-> OffsetOf(FrameLayout(kind), "input_report"), size |-> size.val])

\* DualSenseConnection::read_input_report never assigns self.connection_type:
\* the connection's kind once a read of `r` has returned.
connection_type_after_read(kind, r) == kind

\* read_input_report with the bytes `data` the device sends: the decoded report.
read_input_report_of(kind, r, data) ==
    LET res == read_input_report(kind, r)
    IN  IF ~res.ok THEN res
        ELSE Ok(transmute_input_report(kind, ReadBuffer(data, res.val.size)))

\* The status task's body after connect (update_device_status): the payload of
\* the BatteryUpdate it hands to the handler, or the error it ends with.
status_task_battery(kind, r, data) ==
    LET report == read_input_report_of(kind, r, data)
    IN  IF ~report.ok THEN report ELSE Ok(battery(report.val.status))

\* A call that aborts the process (panic!, unwrap or expect on a failure).
Panic == [ok |-> FALSE, val |-> "none", err |-> "panic"]

\* Option<&DualSenseInputReport>
None == [some |-> FALSE, val |-> <<>>]
Some(v) == [some |-> TRUE, val |-> v]

\* DualSenseInputReport::parse (proto.rs) on a slice of `len` bytes
parse(data, len) ==
    IF len = 0 THEN None
    ELSE IF data[0] \notin {DS_INPUT_REPORT_USB, DS_INPUT_REPORT_BT} THEN None
    ELSE LET offset == IF data[0] = DS_INPUT_REPORT_USB THEN 1 ELSE 2
         IN  IF offset + DS_INPUT_REPORT_SIZE > len THEN None
             ELSE Some(InputReportAt(data, offset))

\* hidapi's read_timeout(&mut buf, 500): a device that does not answer within
\* the timeout gives a read of 0 bytes.
read_timeout(out) ==
    IF out.st = "hang" THEN Ok(0)
    ELSE IF out.st = "io_err" THEN Err("Io")
    ELSE Ok(out.v)

\* DualSense::read_report (hid.rs): parse(&buf).unwrap()
hid_read_report(r, data) ==
    LET size == read_timeout(r)
        buf == ReadBuffer(data, size.val)
    IN  IF ~size.ok THEN size
        ELSE IF size.val = 0 THEN Err("InvalidZeroSizeData")
        ELSE IF ~parse(buf, DS_INPUT_REPORT_BT_SIZE).some THEN Panic
        ELSE Ok(parse(buf, DS_INPUT_REPORT_BT_SIZE).val)

\* DualSenseInputReport::parse_report (dualsense.rs): the offset is chosen by
\* the read's size; any other size panics.
parse_report(data, size) ==
    IF size \notin {DS_INPUT_REPORT_USB_SIZE, DS_INPUT_REPORT_BT_SIZE} THEN Panic
    ELSE LET offset == IF size = DS_INPUT_REPORT_USB_SIZE THEN 1 ELSE 2
         IN  IF offset + DS_INPUT_REPORT_SIZE > DS_INPUT_REPORT_BT_SIZE THEN Panic
             ELSE Ok(InputReportAt(data, offset))

\* DualSense::read_report (dualsense.rs)
sync_read_report(r, data) ==
    LET size == read_timeout(r)
    IN  IF ~size.ok THEN size
        ELSE IF size.val = 0 THEN Err("InvalidZeroSizeData")
        ELSE parse_report(ReadBuffer(data, size.val), size.val)

\* The touch record a device sends for the contact position (X, Y): X's low
\* byte in x_lo, X's high nibble and Y's low nibble in xhi_ylo, Y's high byte
\* in y_hi.
TouchRecord(X, Y) ==
    [contact |-> 0,
     x_lo |-> X % 256,
     xhi_ylo |-> (X \div 256) * 16 + (Y % 16),
     y_hi |-> Y \div 16]

\* The bytes of a report a device sends: the report id, then bytes that differ
\* from place to place.
DeviceData(id, seed, len) ==
    [i \in 0..(len - 1) |-> IF i = 0 THEN id ELSE (seed + 7 * i) % 256]

\* ------------------------------------------------------- I/O outcomes
\* What a device can answer, by whether it is attached when it answers.
OpenOutcomes(p) == IF p THEN {IoOk(1), IoErr, IoHang} ELSE {IoErr, IoHang}

ReadOutcomes(d, p) ==
    IF p THEN {IoOk(n) : n \in {report_size(Transport(d))} \cup ForeignSizes}
              \cup {IoErr, IoHang}
    ELSE {IoOk(0), IoErr, IoHang}

\* The first read of an open: the device was attached when it was opened.
FirstReadOutcomes(d, p) == ReadOutcomes(d, TRUE) \cup ReadOutcomes(d, p)

FeatureOutcomes == {IoOk(41), IoErr, IoHang}

QueryOutcomes(p) == IF p THEN {"found", "io_err"} ELSE {"none", "io_err"}

\* How an awaited open is recorded: the session's kind, "err" or "blocked".
OpenOutcome(res) ==
    IF res.err = "blocked" THEN "blocked" ELSE IF res.ok THEN res.val ELSE "err"

\* How a failed connect or read of the status task is recorded: "timeout" is
\* a read that lost against its timer, "zero" a read of length 0.
FailOutcome(stage, out, res) ==
    IF res.err = "blocked" THEN "blocked"
    ELSE IF out.st = "hang" THEN (IF stage = "read" THEN "timeout" ELSE "open_timeout")
    ELSE IF out.st = "ok" THEN "zero"
    ELSE "err"

Orders(S) == {s \in [1..Cardinality(S) -> S] : \A i, j \in DOMAIN s : i # j => s[i] # s[j]}

\* ------------------------------------------------------- events
Connected(d) == [type |-> "Connected", dev |-> d]
Disconnected(d) == [type |-> "Disconnected", dev |-> d]
BatteryUpdate(d) == [type |-> "BatteryUpdate", dev |-> d]

VARIABLES
    present,          \* present[d]: the device is physically attached
    hotplugs,         \* how many times a device was attached or detached
    oaCalls, usCalls, \* how many times open_all_devices, update_status were called
    queue,            \* the hotplug stream: notifications not yet taken
    opened_devices,   \* the registry: d -> kind of its session, or NoSession
    lock,             \* holder of opened_devices' mutex
    oaPc, oaList, oaTask, oaRet, oaEmitted,
    pnpPc, pnpDev, pnpOpen,
    usPc, usList, usSnap, usTried, usOk, usEmitted, usWaited,
    stDev, stKind, stIo,  \* per caller: the status task it has spawned and awaits
    lastCD,           \* history: d's last Connected/Disconnected event
    everConnected,    \* history: the devices a Connected event was delivered for
    emit,             \* history: the events the last step delivered to the handler
    emitLock,         \* history: holder of the mutex when the handler was last invoked
    note,             \* history: the handler step just taken
    cOp, cIn, cOut,   \* a function of the report codec or of the session layer
                      \* applied on its own: which, its arguments and its result
                      \* (both records)
    tDev,             \* the concurrency test: the device it opened
    first_input_report_battery, first_feature_report,
    tPc, tCount, tBuf,  \* per task of the test: position, reads done, buffer
    tFailed,          \* the tasks of the test whose assert_eq! failed
    toPc, toDev,      \* tests::test_open: its position, the device it was given
    ds, connection,   \* its session and its connection: their kind
    toReads, toLast,  \* the reads it has done; its last call and the outcome
    running,          \* run_tray_icon: the event loop has not exited
    events,           \* the user events sent to the event loop, not yet handled
    clicks,           \* how many times the tray icon was clicked
    query_device_i,   \* the "Querying device info" menu item: "Some" or "None"
    device_info_items,  \* the labels of the device items of the menu
    qPc, qTask, qList,  \* the query task: position, per-device tasks, tasks to join
    device_info       \* the labels the query task has collected

vars == <<present, hotplugs, oaCalls, usCalls, queue, opened_devices, lock,
          oaPc, oaList, oaTask, oaRet, oaEmitted,
          pnpPc, pnpDev, pnpOpen,
          usPc, usList, usSnap, usTried, usOk, usEmitted, usWaited,
          stDev, stKind, stIo, lastCD, everConnected, emit, emitLock, note,
          cOp, cIn, cOut,
          tDev, first_input_report_battery, first_feature_report,
          tPc, tCount, tBuf, tFailed,
          toPc, toDev, ds, connection, toReads, toLast,
          running, events, clicks, query_device_i, device_info_items,
          qPc, qTask, qList, device_info>>

envVars == <<present, hotplugs, queue>>
oaVars == <<oaCalls, oaPc, oaList, oaTask, oaRet, oaEmitted>>
pnpVars == <<pnpPc, pnpDev, pnpOpen>>
usVars == <<usCalls, usPc, usList, usSnap, usTried, usOk, usEmitted, usWaited>>
stVars == <<stDev, stKind, stIo>>
mgrVars == <<present, hotplugs, oaCalls, usCalls, queue, opened_devices, lock,
             oaPc, oaList, oaTask, oaRet, oaEmitted,
             pnpPc, pnpDev, pnpOpen,
             usPc, usList, usSnap, usTried, usOk, usEmitted, usWaited,
             stDev, stKind, stIo, lastCD, everConnected, emit, emitLock, note>>
codecVars == <<cOp, cIn, cOut>>
testVars == <<tDev, first_input_report_battery, first_feature_report,
              tPc, tCount, tBuf, tFailed>>
openVars == <<toPc, toDev, ds, connection, toReads, toLast>>
trayVars == <<running, events, clicks, query_device_i, device_info_items,
              qPc, qTask, qList, device_info>>
auxVars == <<codecVars, testVars, openVars, trayVars>>
Tasks == {"read_task", "feature_task"}

\* A call of a test and how it went: `io` is the outcome of the device I/O that
\* decided the call's result.
NoCall == [call |-> "none", io |-> IoOk(0), ok |-> TRUE, err |-> "none"]
Call(name, io, res) == [call |-> name, io |-> io, ok |-> res.ok, err |-> res.err]

NoNote == [op |-> "none", task |-> NoTask, dev |-> NoDevice, pre |-> FALSE, out |-> "none"]
Note(op, c, d, pre, out) == [op |-> op, task |-> c, dev |-> d, pre |-> pre, out |-> out]

Init ==
    /\ present \in [Devices -> BOOLEAN]
    /\ hotplugs = 0 /\ oaCalls = 0 /\ usCalls = 0
    /\ queue = <<>>
    /\ opened_devices = [d \in Devices |-> NoSession]
    /\ lock = NoTask
    /\ oaPc = "idle" /\ oaList = <<>> /\ oaTask = [d \in Devices |-> "none"]
    /\ oaRet = "none" /\ oaEmitted = <<>>
    /\ pnpPc = "watch" /\ pnpDev = NoDevice /\ pnpOpen = "none"
    /\ usPc = "idle" /\ usList = <<>> /\ usSnap = [d \in Devices |-> NoSession]
    /\ usTried = <<>> /\ usOk = {} /\ usEmitted = <<>> /\ usWaited = FALSE
    /\ stDev = [c \in Callers |-> NoDevice]
    /\ stKind = [c \in Callers |-> NoSession]
    /\ stIo = [c \in Callers |-> "none"]
    /\ lastCD = [d \in Devices |-> "none"]
    /\ everConnected = {}
    /\ emit = <<>>
    /\ emitLock = NoTask
    /\ note = NoNote
    /\ cOp = "none" /\ cIn = <<>> /\ cOut = <<>>
    /\ tDev = [kind |-> "none", seed |-> 0, fseed |-> 0]
    /\ first_input_report_battery = <<>> /\ first_feature_report = <<>>
    /\ tPc = [t \in Tasks |-> "off"]
    /\ tCount = [t \in Tasks |-> 0]
    /\ tBuf = [t \in Tasks |-> <<>>]
    /\ tFailed = {}
    /\ toPc = "off" /\ toDev = NoDevice
    /\ ds = NoSession /\ connection = NoSession
    /\ toReads = 0 /\ toLast = NoCall
    /\ running = TRUE /\ events = <<>> /\ clicks = 0
    /\ query_device_i = "None" /\ device_info_items = <<>>
    /\ qPc = "none" /\ qTask = [d \in Devices |-> "none"] /\ qList = <<>>
    /\ device_info = <<>>

\* ------------------------------------------------------- the handler
\* d's last Connected/Disconnected event once evs are delivered.
LastCDAfter(evs) ==
    [d \in Devices |->
        LET cd == SelectSeq(evs, LAMBDA e : e.dev = d /\ e.type # "BatteryUpdate")
        IN  IF cd = <<>> THEN lastCD[d]
            ELSE IF cd[Len(cd)].type = "Connected" THEN "C" ELSE "D"]

\* handler(event) for each event of evs, invoked while `holder` holds the mutex.
Handler(evs, holder) ==
    /\ emit' = evs
    /\ emitLock' = IF evs = <<>> THEN NoTask ELSE holder
    /\ lastCD' = LastCDAfter(evs)
    /\ everConnected' = everConnected \cup
            {evs[i].dev : i \in {j \in DOMAIN evs : evs[j].type = "Connected"}}

\* A step that invokes no handler.
Quiet == Handler(<<>>, NoTask)

\* ------------------------------------------------------- device manager
\* self.opened_devices.lock().await.<op>(..) : the MutexGuard is a temporary of
\* the statement (of the if's condition in open_device_id) and is dropped at its
\* end; what `holder` still holds after the statement.
GuardHeldToScopeEnd(holder) == holder

GuardAfterStatement(holder) == NoTask

\* insert_device: opened_devices.insert(device_id, device)
insert_device_registry(reg, d, kind) == [reg EXCEPT ![d] = kind]

insert_device_no_event(d) == <<>>

\* insert_device: handler(Connected(device_id, device_name))
insert_device_events(d) == <<Connected(d)>>

close_device_keep_entry(reg, d) == reg

\* close_device: opened_devices.remove(device_id)
close_device_registry(reg, d) == [reg EXCEPT ![d] = NoSession]

close_device_events_if_entry(d, had) == IF had THEN <<Disconnected(d)>> ELSE <<>>

\* close_device: handler(Disconnected(device_id)); had: d had a registry entry
close_device_events(d, had) == <<Disconnected(d)>>

open_device_id_never_known(reg, d) == FALSE

\* open_device_id: opened_devices.get(&device_id).is_some()
open_device_id_known(reg, d) == reg[d] # NoSession

open_all_abort_on_failure(res) == IF res \in Kinds THEN "insert" ELSE "abort"

\* open_all_devices: if let Ok(device) = device.await { insert_device }
open_all_on_task(res) == IF res \in Kinds THEN "insert" ELSE "skip"

\* update_status: opened_devices.lock().await.clone()
update_status_snapshot(reg) == reg

update_status_stop_on_failure(succeeded) == IF succeeded THEN "continue" ELSE "stop"

\* update_status: let _ = task.await : whether the status task succeeded or
\* not, the loop goes on.
update_status_on_task(succeeded) == "continue"

\* the status task: the events of its result
status_task_events(d, out) == IF out = "ok" THEN <<BatteryUpdate(d)>> ELSE <<>>

\* update_device_status: smol::spawn(..).await, the task starts with connect()
SpawnStatus(c, d, kind) ==
    /\ stDev' = [stDev EXCEPT ![c] = d]
    /\ stKind' = [stKind EXCEPT ![c] = kind]
    /\ stIo' = [stIo EXCEPT ![c] = "connecting"]

JoinStatus(c) ==
    /\ stDev' = [stDev EXCEPT ![c] = NoDevice]
    /\ stKind' = [stKind EXCEPT ![c] = NoSession]
    /\ stIo' = [stIo EXCEPT ![c] = "none"]

\* insert_device, up to the suspension in update_device_status
insert_device(c, d, kind) ==
    /\ lock = NoTask
    /\ opened_devices' = insert_device_registry(opened_devices, d, kind)
    /\ lock' = GuardAfterStatement(c)
    /\ Handler(insert_device_events(d), GuardAfterStatement(c))
    /\ SpawnStatus(c, d, kind)
    /\ note' = Note("insert_device", c, d, opened_devices[d] # NoSession, kind)

\* close_device
close_device(c, d) ==
    /\ lock = NoTask
    /\ opened_devices' = close_device_registry(opened_devices, d)
    /\ lock' = GuardAfterStatement(c)
    /\ Handler(close_device_events(d, opened_devices[d] # NoSession), GuardAfterStatement(c))
    /\ note' = Note("close_device", c, d, opened_devices[d] # NoSession, "none")

\* ------------------------------------------------------- environment
\* The device is attached: the backend puts Connected(d) on the hotplug stream.
Attach(d) ==
    /\ UNCHANGED auxVars
    /\ ~present[d]
    /\ Len(queue) < MaxQueue
    /\ hotplugs' = hotplugs + 1
    /\ present' = [present EXCEPT ![d] = TRUE]
    /\ queue' = Append(queue, Connected(d))
    /\ Quiet
    /\ note' = NoNote
    /\ UNCHANGED <<opened_devices, lock, oaVars, pnpVars, usVars, stVars>>

\* The device is detached: the backend puts Disconnected(d) on the stream.
Detach(d) ==
    /\ UNCHANGED auxVars
    /\ present[d]
    /\ Len(queue) < MaxQueue
    /\ hotplugs' = hotplugs + 1
    /\ present' = [present EXCEPT ![d] = FALSE]
    /\ queue' = Append(queue, Disconnected(d))
    /\ Quiet
    /\ note' = NoNote
    /\ UNCHANGED <<opened_devices, lock, oaVars, pnpVars, usVars, stVars>>

Plug(d) ==
    /\ hotplugs < MaxHotplug
    /\ Attach(d)

Unplug(d) ==
    /\ hotplugs < MaxHotplug
    /\ Detach(d)

\* ------------------------------------------------------- the status task
\* connect()'s open_readable completes; on success the task issues the read.
StatusConnectDone(c) ==
    /\ UNCHANGED auxVars
    /\ stIo[c] = "connecting"
    /\ \E o \in OpenOutcomes(present[stDev[c]]) :
         LET ds_conn == connect(stKind[c], o)
         IN  stIo' = [stIo EXCEPT ![c] =
                        IF ds_conn.ok THEN "reading" ELSE FailOutcome("connect", o, ds_conn)]
    /\ Quiet
    /\ note' = NoNote
    /\ UNCHANGED <<envVars, opened_devices, lock, oaVars, pnpVars, usVars, stDev, stKind>>

\* read_input_report's read completes.
StatusReadDone(c) ==
    /\ UNCHANGED auxVars
    /\ stIo[c] = "reading"
    /\ \E r \in ReadOutcomes(stDev[c], present[stDev[c]]) :
         LET report == read_input_report(stKind[c], r)
         IN  stIo' = [stIo EXCEPT ![c] =
                        IF report.ok THEN "ok" ELSE FailOutcome("read", r, report)]
    /\ Quiet
    /\ note' = NoNote
    /\ UNCHANGED <<envVars, opened_devices, lock, oaVars, pnpVars, usVars, stDev, stKind>>

\* The status task resumes with the result: BatteryUpdate on success, the error
\* returned otherwise; the task ends.
StatusTaskRun(c) ==
    /\ UNCHANGED auxVars
    /\ stIo[c] \in {"ok", "zero", "timeout", "open_timeout", "err"}
    /\ LET d == stDev[c]
           evs == status_task_events(d, stIo[c])
       IN  /\ Handler(evs, lock)
           /\ note' = Note("status", c, d, opened_devices[d] # NoSession, stIo[c])
           /\ IF c = "us"
              THEN /\ usTried' = Append(usTried, d)
                   /\ usOk' = IF stIo[c] = "ok" THEN usOk \cup {d} ELSE usOk
                   /\ usEmitted' = usEmitted \o evs
                   /\ usWaited' = (usWaited \/ stIo[c] = "timeout")
                   /\ UNCHANGED <<usCalls, usPc, usList, usSnap>>
              ELSE UNCHANGED usVars
    /\ stIo' = [stIo EXCEPT ![c] = "done"]
    /\ UNCHANGED <<envVars, opened_devices, lock, oaVars, pnpVars, stDev, stKind>>

\* ------------------------------------------------------- open_all_devices
\* The call: enumerate, one spawned open_device task per matching device, then
\* the loop suspends on the first task.
OpenAllStart ==
    /\ UNCHANGED auxVars
    /\ oaPc \in {"idle", "done"}
    /\ oaCalls < MaxOpenAll
    /\ oaCalls' = oaCalls + 1
    /\ \E enumerated \in BOOLEAN :
         IF ~enumerated
         THEN /\ oaPc' = "done" /\ oaRet' = "EnumErr" /\ oaList' = <<>>
              /\ oaTask' = [d \in Devices |-> "none"]
         ELSE \E order \in Orders({d \in Devices : present[d]}) :
                /\ oaList' = order
                /\ oaTask' = [d \in Devices |-> IF present[d] THEN "pending" ELSE "none"]
                /\ oaPc' = IF order = <<>> THEN "done" ELSE "run"
                /\ oaRet' = IF order = <<>> THEN "Ok" ELSE "none"
    /\ oaEmitted' = <<>>
    /\ Quiet
    /\ note' = NoNote
    /\ UNCHANGED <<envVars, opened_devices, lock, pnpVars, usVars, stVars>>

\* A spawned open_device task completes (or blocks in read_feature_report).
OpenTaskDone(d) ==
    /\ UNCHANGED auxVars
    /\ oaTask[d] = "pending"
    /\ \E o \in OpenOutcomes(present[d]), r \in FirstReadOutcomes(d, present[d]),
          f \in FeatureOutcomes :
         oaTask' = [oaTask EXCEPT ![d] = OpenOutcome(open_device(o, r, f))]
    /\ Quiet
    /\ note' = NoNote
    /\ UNCHANGED <<envVars, opened_devices, lock, oaCalls, oaPc, oaList, oaRet, oaEmitted,
                   pnpVars, usVars, stVars>>

\* for device in devices: the awaited task has completed.
OpenAllJoin ==
    /\ UNCHANGED auxVars
    /\ oaPc = "run"
    /\ oaTask[Head(oaList)] \notin {"pending", "blocked"}
    /\ LET d == Head(oaList)
           res == oaTask[d]
           todo == open_all_on_task(res)
       IN  IF todo = "insert"
           THEN /\ insert_device("oa", d, res)
                /\ oaEmitted' = oaEmitted \o insert_device_events(d)
                /\ oaPc' = "status"
                /\ UNCHANGED <<oaList, oaRet>>
           ELSE /\ oaList' = Tail(oaList)
                /\ oaPc' = IF todo = "abort" \/ Tail(oaList) = <<>> THEN "done" ELSE "run"
                /\ oaRet' = IF todo = "abort" THEN "Err"
                            ELSE IF Tail(oaList) = <<>> THEN "Ok" ELSE "none"
                /\ Quiet
                /\ note' = Note("open_all_skip", "oa", d, opened_devices[d] # NoSession, res)
                /\ UNCHANGED <<opened_devices, lock, oaEmitted, stVars>>
    /\ UNCHANGED <<envVars, oaCalls, oaTask, pnpVars, usVars>>

\* insert_device returns once the status task has ended; the loop goes on.
OpenAllNext ==
    /\ UNCHANGED auxVars
    /\ oaPc = "status"
    /\ stIo["oa"] = "done"
    /\ JoinStatus("oa")
    /\ oaList' = Tail(oaList)
    /\ oaPc' = IF Tail(oaList) = <<>> THEN "done" ELSE "run"
    /\ oaRet' = IF Tail(oaList) = <<>> THEN "Ok" ELSE "none"
    /\ Quiet
    /\ note' = NoNote
    /\ UNCHANGED <<envVars, opened_devices, lock, oaCalls, oaTask, oaEmitted, pnpVars, usVars>>

\* ------------------------------------------------------- watch_pnp
watch_pnp_spawns_handling(pc) == TRUE

\* while let Some(event) = watch_stream.next().await { match event { .. } } :
\* the arms await open_device_id and close_device, so the stream is polled
\* again only when the handling of the last notification has returned.
watch_pnp_takes_next(pc) == pc = "watch"

\* DeviceEvent::Connected(device_id): open_device_id
PnpConnected ==
    /\ UNCHANGED auxVars
    /\ watch_pnp_takes_next(pnpPc)
    /\ queue # <<>>
    /\ Head(queue).type = "Connected"
    /\ lock = NoTask
    /\ LET d == Head(queue).dev
           known == open_device_id_known(opened_devices, d)
       IN  /\ IF known
              THEN UNCHANGED pnpVars
              ELSE /\ pnpPc' = "opening"
                   /\ pnpDev' = d
                   /\ pnpOpen' = "pending"
           /\ note' = Note("pnp_connected", "pnp", d, opened_devices[d] # NoSession,
                           IF known THEN "known" ELSE "open")
    /\ queue' = Tail(queue)
    /\ lock' = GuardAfterStatement("pnp")
    /\ Quiet
    /\ UNCHANGED <<present, hotplugs, opened_devices, oaVars, usVars, stVars>>

\* query_devices and open_device complete (or open_device blocks).
PnpOpenDone ==
    /\ UNCHANGED auxVars
    /\ pnpOpen = "pending"
    /\ \E q \in QueryOutcomes(present[pnpDev]), o \in OpenOutcomes(present[pnpDev]),
          r \in FirstReadOutcomes(pnpDev, present[pnpDev]), f \in FeatureOutcomes :
         pnpOpen' = OpenOutcome(open_device_id_session(q, o, r, f))
    /\ Quiet
    /\ note' = NoNote
    /\ UNCHANGED <<envVars, opened_devices, lock, oaVars, pnpPc, pnpDev, usVars, stVars>>

\* open_device_id resumes with the session or the error.
PnpOpened ==
    /\ UNCHANGED auxVars
    /\ pnpPc = "opening"
    /\ pnpOpen \notin {"pending", "blocked"}
    /\ IF pnpOpen \in Kinds
       THEN /\ insert_device("pnp", pnpDev, pnpOpen)
            /\ pnpPc' = "status"
            /\ pnpOpen' = "none"
            /\ UNCHANGED pnpDev
       ELSE /\ pnpPc' = "watch"
            /\ pnpOpen' = "none"
            /\ pnpDev' = NoDevice
            /\ Quiet
            /\ note' = NoNote
            /\ UNCHANGED <<opened_devices, lock, stVars>>
    /\ UNCHANGED <<envVars, oaVars, usVars>>

PnpNext ==
    /\ UNCHANGED auxVars
    /\ pnpPc = "status"
    /\ stIo["pnp"] = "done"
    /\ JoinStatus("pnp")
    /\ pnpPc' = "watch"
    /\ pnpDev' = NoDevice
    /\ Quiet
    /\ note' = NoNote
    /\ UNCHANGED <<envVars, opened_devices, lock, oaVars, pnpOpen, usVars>>

\* DeviceEvent::Disconnected(device_id): close_device
PnpDisconnected ==
    /\ UNCHANGED auxVars
    /\ watch_pnp_takes_next(pnpPc)
    /\ queue # <<>>
    /\ Head(queue).type = "Disconnected"
    /\ close_device("pnp", Head(queue).dev)
    /\ queue' = Tail(queue)
    /\ UNCHANGED <<present, hotplugs, oaVars, pnpVars, usVars, stVars>>

\* ------------------------------------------------------- update_status
\* The call: the map is cloned under the lock, then the loop suspends in the
\* first update_device_status.
UpdateStatusStart ==
    /\ UNCHANGED auxVars
    /\ usPc \in {"idle", "done"}
    /\ usCalls < MaxRefresh
    /\ usCalls' = usCalls + 1
    /\ lock = NoTask
    /\ LET devices == update_status_snapshot(opened_devices)
       IN  /\ usSnap' = devices
           /\ \E order \in Orders({d \in Devices : devices[d] # NoSession}) :
                /\ usList' = order
                /\ IF order = <<>>
                   THEN /\ usPc' = "done"
                        /\ UNCHANGED stVars
                   ELSE /\ usPc' = "run"
                        /\ SpawnStatus("us", Head(order), devices[Head(order)])
    /\ lock' = GuardAfterStatement("us")
    /\ usTried' = <<>> /\ usOk' = {} /\ usEmitted' = <<>> /\ usWaited' = FALSE
    /\ Quiet
    /\ note' = NoNote
    /\ UNCHANGED <<envVars, opened_devices, oaVars, pnpVars>>

\* for task in tasks: the awaited update_device_status has returned; the next
\* one is created and polled only now.
UpdateStatusNext ==
    /\ UNCHANGED auxVars
    /\ usPc = "run"
    /\ stIo["us"] = "done"
    /\ LET rest == IF update_status_on_task(Head(usList) \in usOk) = "continue"
                   THEN Tail(usList) ELSE <<>>
       IN  /\ usList' = rest
           /\ IF rest = <<>>
              THEN /\ usPc' = "done"
                   /\ JoinStatus("us")
              ELSE /\ usPc' = "run"
                   /\ SpawnStatus("us", Head(rest), usSnap[Head(rest)])
    /\ Quiet
    /\ note' = NoNote
    /\ UNCHANGED <<envVars, opened_devices, lock, oaVars, pnpVars,
                   usCalls, usSnap, usTried, usOk, usEmitted, usWaited>>

Next ==
    \/ \E d \in Devices : Plug(d)
    \/ \E d \in Devices : Unplug(d)
    \/ \E c \in Callers : StatusConnectDone(c)
    \/ \E c \in Callers : StatusReadDone(c)
    \/ \E c \in Callers : StatusTaskRun(c)
    \/ OpenAllStart
    \/ \E d \in Devices : OpenTaskDone(d)
    \/ OpenAllJoin
    \/ OpenAllNext
    \/ PnpConnected
    \/ PnpOpenDone
    \/ PnpOpened
    \/ PnpNext
    \/ PnpDisconnected
    \/ UpdateStatusStart
    \/ UpdateStatusNext

Spec == Init /\ [][Next]_vars

\* The manager with watch_pnp as its only running task, over a longer run of
\* attachments and detachments.
MaxWatched == 4

WatchedPlug(d) ==
    /\ hotplugs < MaxWatched
    /\ Attach(d)

WatchedUnplug(d) ==
    /\ hotplugs < MaxWatched
    /\ Detach(d)

PnpAloneNext ==
    \/ \E d \in Devices : WatchedPlug(d)
    \/ \E d \in Devices : WatchedUnplug(d)
    \/ PnpConnected
    \/ PnpOpenDone
    \/ PnpOpened
    \/ PnpNext
    \/ PnpDisconnected
    \/ StatusConnectDone("pnp")
    \/ StatusReadDone("pnp")
    \/ StatusTaskRun("pnp")

SpecPnp == Init /\ [][PnpAloneNext]_vars

\* The steps of a refresh in progress: its status task's I/O completing (the
\* timers bound it), the task resuming, the loop going on.
UpdateStatusProgress ==
    \/ StatusConnectDone("us")
    \/ StatusReadDone("us")
    \/ StatusTaskRun("us")
    \/ UpdateStatusNext

TypeOK ==
    /\ present \in [Devices -> BOOLEAN]
    /\ Len(queue) <= MaxQueue
    /\ opened_devices \in [Devices -> Kinds \cup {NoSession}]
    /\ lock \in Callers \cup {NoTask}

\* ------------------------------------------------------- the codec on its own
\* The functions of the report codec and of the session layer, each applied to
\* arguments drawn from the values a device can send.
MaxLength == 80

Lengths == 0..MaxLength
ReadLengths == {n \in Lengths : n <= DS_INPUT_REPORT_BT_SIZE}
ReportIds == {DS_INPUT_REPORT_USB, DS_INPUT_REPORT_BT, 0, 2}
SampleSeeds == {0, 100, 201}
SampleBytes == {0, 1, 15, 16, 127, 128, 240, 255}
Coords == 0..4095
SampleCoords == {0, 1, 15, 16, 255, 256, 2730, 4095}
ReportId(kind) == IF kind = "USB" THEN DS_INPUT_REPORT_USB ELSE DS_INPUT_REPORT_BT
IoOutcomes(sizes) == {IoOk(n) : n \in sizes} \cup {IoErr, IoHang}

\* How a result is recorded in cOut: a decoded report in .report, a battery
\* pair in .pair, a session's or connection's kind in .val.
AsReport(res) ==
    IF res.ok THEN [ok |-> TRUE, err |-> "none", report |-> res.val]
    ELSE [ok |-> FALSE, err |-> res.err]

\* The result of a read_input_report and the connection's kind after it.
AsRead(res, kind) ==
    IF res.ok THEN [ok |-> TRUE, err |-> "none", report |-> res.val, kind |-> kind]
    ELSE [ok |-> FALSE, err |-> res.err, kind |-> kind]

\* The result of an open_device and whether it called read_feature_report.
AsOpened(res, requested) ==
    [ok |-> res.ok, val |-> res.val, err |-> res.err, requested |-> requested]

AsPair(res) ==
    IF res.ok THEN [ok |-> TRUE, err |-> "none", pair |-> res.val]
    ELSE [ok |-> FALSE, err |-> res.err]

Apply(op, in, out) ==
    /\ cOp' = op
    /\ cIn' = in
    /\ cOut' = out
    /\ UNCHANGED <<mgrVars, testVars, openVars, trayVars>>

ApplyFromReportSize ==
    /\ cOp = "none"
    /\ \E size \in Lengths :
           Apply("from_report_size", [size |-> size], [kind |-> from_report_size(size)])

ApplyOpenDevice ==
    /\ cOp = "none"
    /\ \E o \in OpenOutcomes(TRUE), r \in IoOutcomes(ReadLengths), f \in FeatureOutcomes :
           Apply("open_device", [o |-> o, r |-> r, f |-> f],
                 AsOpened(open_device(o, r, f), feature_requested(o, r)))

ApplyConnect ==
    /\ cOp = "none"
    /\ \E kind \in Kinds, o \in OpenOutcomes(TRUE) :
           Apply("connect", [kind |-> kind, o |-> o], connect(kind, o))

ApplyReadInputReport ==
    /\ cOp = "none"
    /\ \E kind \in Kinds, r \in IoOutcomes(ReadLengths), id \in ReportIds, seed \in SampleSeeds :
           Apply("read_input_report", [kind |-> kind, r |-> r, id |-> id, seed |-> seed],
                 AsRead(read_input_report_of(kind, r, DeviceData(id, seed, r.v)),
                        connection_type_after_read(kind, r)))

ApplyStatusTask ==
    /\ cOp = "none"
    /\ \E kind \in Kinds, seed \in Byte :
           \E r \in IoOutcomes({0, report_size(kind)}) :
               Apply("status_task", [kind |-> kind, r |-> r, seed |-> seed],
                     AsPair(status_task_battery(kind, r,
                                                DeviceData(ReportId(kind), seed, r.v))))

ApplyBattery ==
    /\ cOp = "none"
    /\ \E s \in Byte : Apply("battery", [status |-> s], [pair |-> battery(s)])

ApplyTouchPoint ==
    /\ cOp = "none"
    /\ \E c \in {0, 128}, x_lo \in SampleBytes, xhi_ylo \in Byte, y_hi \in SampleBytes :
           LET p == [contact |-> c, x_lo |-> x_lo, xhi_ylo |-> xhi_ylo, y_hi |-> y_hi]
           IN  Apply("touch_point", p, [x |-> touch_x(p), y |-> touch_y(p)])

ApplyTouchRecord ==
    /\ cOp = "none"
    /\ \E XY \in (Coords \X SampleCoords) \cup (SampleCoords \X Coords) :
           LET p == TouchRecord(XY[1], XY[2])
           IN  Apply("touch_record", [X |-> XY[1], Y |-> XY[2], p |-> p],
                     [x |-> touch_x(p), y |-> touch_y(p)])

ApplyHidReadReport ==
    /\ cOp = "none"
    /\ \E r \in IoOutcomes(ReadLengths), id \in ReportIds, seed \in SampleSeeds :
           Apply("hid_read_report", [r |-> r, id |-> id, seed |-> seed],
                 AsReport(hid_read_report(r, DeviceData(id, seed, r.v))))

ApplySyncReadReport ==
    /\ cOp = "none"
    /\ \E r \in IoOutcomes(ReadLengths), id \in ReportIds, seed \in SampleSeeds :
           Apply("sync_read_report", [r |-> r, id |-> id, seed |-> seed],
                 AsReport(sync_read_report(r, DeviceData(id, seed, r.v))))

CodecInit == Init /\ present = [d \in Devices |-> FALSE]

CodecNext ==
    \/ ApplyFromReportSize
    \/ ApplyOpenDevice
    \/ ApplyConnect
    \/ ApplyReadInputReport
    \/ ApplyStatusTask
    \/ ApplyBattery
    \/ ApplyTouchPoint
    \/ ApplyTouchRecord
    \/ ApplyHidReadReport
    \/ ApplySyncReadReport

SpecCodec == CodecInit /\ [][CodecNext]_vars

\* ------------------------------------------------------- the concurrency test
\* tests::concurrent_read_input_and_feature: a read task and a feature task on
\* one opened device.  The device answers every request, an input-report read
\* with its input report and a feature-report read with its feature report, in
\* any order; its reports do not change while the test runs.
MaxTestReads == 2

DS_FEATURE_REPORT_BT_FULL == 5
FeatureReportSize == 41
FeatureBufferSize == 128

\* What a read writes to the buffer it was given: `size` bytes at its start.
WriteInto(buf, data, size) ==
    [i \in DOMAIN buf |-> IF i < size THEN data[i] ELSE buf[i]]

InputData(dev) == DeviceData(ReportId(dev.kind), dev.seed, report_size(dev.kind))
FeatureData(dev) == DeviceData(DS_FEATURE_REPORT_BT_FULL, dev.fseed, FeatureReportSize)

\* let mut buf = [0u8; DS_INPUT_REPORT_BT_SIZE] in read_input_report
NewInputBuffer == [i \in 0..(DS_INPUT_REPORT_BT_SIZE - 1) |-> 0]

\* let mut buf = [0u8; 128]; buf[0] = DS_FEATURE_REPORT_BT_FULL
NewFeatureBuffer ==
    [i \in 0..(FeatureBufferSize - 1) |-> IF i = 0 THEN DS_FEATURE_REPORT_BT_FULL ELSE 0]

\* buf[..size].to_vec()
Prefix(buf, size) == [i \in 0..(size - 1) |-> buf[i]]

SharedBuffer(t) == "read_task"

\* The buffer a task's read is given: a local of the call, one per task.
BufferOf(t) == t

TestStart ==
    /\ tPc = [t \in Tasks |-> "off"]
    /\ cOp = "none"
    /\ \E kind \in Kinds, seed \in SampleSeeds, fseed \in SampleSeeds :
         LET dev == [kind |-> kind, seed |-> seed, fseed |-> fseed]
             report == transmute_input_report(kind,
                           WriteInto(NewInputBuffer, InputData(dev), report_size(kind)))
         IN  /\ tDev' = dev
             /\ first_input_report_battery' = battery(report.status)
             /\ first_feature_report' =
                    Prefix(WriteInto(NewFeatureBuffer, FeatureData(dev), FeatureReportSize),
                           FeatureReportSize)
    /\ tPc' = [t \in Tasks |-> "idle"]
    /\ tBuf' = [t \in Tasks |-> <<>>]
    /\ UNCHANGED <<mgrVars, codecVars, openVars, trayVars, tCount, tFailed>>

\* connection.read_input_report(): the read is issued on a fresh buffer.
ReadTaskRequest ==
    /\ tPc["read_task"] = "idle"
    /\ tCount["read_task"] < MaxTestReads
    /\ tPc' = [tPc EXCEPT !["read_task"] = "io"]
    /\ tBuf' = [tBuf EXCEPT ![BufferOf("read_task")] = NewInputBuffer]
    /\ UNCHANGED <<mgrVars, codecVars, openVars, trayVars, tDev, first_input_report_battery,
                   first_feature_report, tCount, tFailed>>

\* ds.device.read_feature_report(&mut buf): issued on a fresh buffer.
FeatureTaskRequest ==
    /\ tPc["feature_task"] = "idle"
    /\ tCount["feature_task"] < MaxTestReads
    /\ tPc' = [tPc EXCEPT !["feature_task"] = "io"]
    /\ tBuf' = [tBuf EXCEPT ![BufferOf("feature_task")] = NewFeatureBuffer]
    /\ UNCHANGED <<mgrVars, codecVars, openVars, trayVars, tDev, first_input_report_battery,
                   first_feature_report, tCount, tFailed>>

\* The device answers a pending request.
DeviceAnswers(t) ==
    /\ tPc[t] = "io"
    /\ tPc' = [tPc EXCEPT ![t] = "got"]
    /\ tBuf' = [tBuf EXCEPT ![BufferOf(t)] =
                  IF t = "read_task"
                  THEN WriteInto(@, InputData(tDev), report_size(tDev.kind))
                  ELSE WriteInto(@, FeatureData(tDev), FeatureReportSize)]
    /\ UNCHANGED <<mgrVars, codecVars, openVars, trayVars, tDev, first_input_report_battery,
                   first_feature_report, tCount, tFailed>>

\* The read task resumes: report.battery(), assert_eq!
ReadTaskCheck ==
    /\ tPc["read_task"] = "got"
    /\ LET report == transmute_input_report(tDev.kind, tBuf[BufferOf("read_task")])
       IN  tFailed' = IF battery(report.status) = first_input_report_battery
                      THEN tFailed ELSE tFailed \cup {"read_task"}
    /\ tCount' = [tCount EXCEPT !["read_task"] = @ + 1]
    /\ tPc' = [tPc EXCEPT !["read_task"] = "idle"]
    /\ UNCHANGED <<mgrVars, codecVars, openVars, trayVars, tDev, first_input_report_battery,
                   first_feature_report, tBuf>>

\* The feature task resumes: buf[..size].to_vec(), assert_eq!
FeatureTaskCheck ==
    /\ tPc["feature_task"] = "got"
    /\ LET report == Prefix(tBuf[BufferOf("feature_task")], FeatureReportSize)
       IN  tFailed' = IF report = first_feature_report
                      THEN tFailed ELSE tFailed \cup {"feature_task"}
    /\ tCount' = [tCount EXCEPT !["feature_task"] = @ + 1]
    /\ tPc' = [tPc EXCEPT !["feature_task"] = "idle"]
    /\ UNCHANGED <<mgrVars, codecVars, openVars, trayVars, tDev, first_input_report_battery,
                   first_feature_report, tBuf>>

TestNext ==
    \/ TestStart
    \/ ReadTaskRequest
    \/ FeatureTaskRequest
    \/ \E t \in Tasks : DeviceAnswers(t)
    \/ ReadTaskCheck
    \/ FeatureTaskCheck

SpecTest == CodecInit /\ [][TestNext]_vars

\* ------------------------------------------------------- tests::test_open
\* One session from open to its reads: enumerate, open_device on the first
\* device of the stream, connect, then five read_input_report on the
\* connection, each result unwrapped.  The device can be detached at any point.
TestOpenReads == 5

\* The outcome of open_device's I/O that decided its result.
DecidingIo(o, r, f) ==
    IF o.st # "ok" THEN o
    ELSE IF r.st # "ok" \/ from_report_size(r.v) # "BT" THEN r
    ELSE f

\* DualSense::enumerate(&hid).await.unwrap(); stream.next().await
TestOpenStart ==
    /\ toPc = "off"
    /\ cOp = "none"
    /\ \E enumerated \in BOOLEAN :
         IF ~enumerated
         THEN /\ toPc' = "panicked"
              /\ toLast' = Call("enumerate", IoErr, Err("Io"))
              /\ UNCHANGED toDev
         ELSE /\ toLast' = Call("enumerate", IoOk(0), Ok("stream"))
              /\ IF \E d \in Devices : present[d]
                 THEN /\ toDev' \in {d \in Devices : present[d]}
                      /\ toPc' = "open_device"
                 ELSE /\ toPc' = "done"
                      /\ UNCHANGED toDev
    /\ UNCHANGED <<mgrVars, codecVars, testVars, trayVars, ds, connection, toReads>>

\* DualSense::open_device(device).await.unwrap()
TestOpenDevice ==
    /\ toPc = "open_device"
    /\ \E o \in OpenOutcomes(present[toDev]), r \in FirstReadOutcomes(toDev, present[toDev]),
          f \in FeatureOutcomes :
         LET res == open_device(o, r, f)
         IN  /\ toLast' = Call("open_device", DecidingIo(o, r, f), res)
             /\ ds' = IF res.ok THEN res.val ELSE NoSession
             /\ toPc' = IF res.ok THEN "connect"
                        ELSE IF res.err = "blocked" THEN "blocked" ELSE "panicked"
    /\ UNCHANGED <<mgrVars, codecVars, testVars, trayVars, toDev, connection, toReads>>

\* ds.connect().await.unwrap()
TestOpenConnect ==
    /\ toPc = "connect"
    /\ \E o \in OpenOutcomes(present[toDev]) :
         LET res == connect(ds, o)
         IN  /\ toLast' = Call("connect", o, res)
             /\ connection' = IF res.ok THEN res.val ELSE NoSession
             /\ toPc' = IF res.ok THEN "read" ELSE "panicked"
    /\ UNCHANGED <<mgrVars, codecVars, testVars, trayVars, toDev, ds, toReads>>

\* for _ in 0..5 { connection.read_input_report().await.unwrap() }
TestOpenRead ==
    /\ toPc = "read"
    /\ \E r \in ReadOutcomes(toDev, present[toDev]) :
         LET res == read_input_report(connection, r)
         IN  /\ toLast' = Call("read_input_report", r, res)
             /\ connection' = IF res.ok THEN connection_type_after_read(connection, r)
                               ELSE connection
             /\ toReads' = IF res.ok THEN toReads + 1 ELSE toReads
             /\ toPc' = IF ~res.ok THEN "panicked"
                        ELSE IF toReads + 1 = TestOpenReads THEN "done" ELSE "read"
    /\ UNCHANGED <<mgrVars, codecVars, testVars, trayVars, toDev, ds>>

\* The device is detached while the test runs.
TestOpenDetach ==
    /\ toPc \in {"open_device", "connect", "read"}
    /\ present[toDev]
    /\ present' = [present EXCEPT ![toDev] = FALSE]
    /\ UNCHANGED <<hotplugs, oaCalls, usCalls, queue, opened_devices, lock,
                   oaPc, oaList, oaTask, oaRet, oaEmitted, pnpVars,
                   usPc, usList, usSnap, usTried, usOk, usEmitted, usWaited,
                   stVars, lastCD, everConnected, emit, emitLock, note,
                   codecVars, testVars, openVars, trayVars>>

TestOpenNext ==
    \/ TestOpenStart
    \/ TestOpenDevice
    \/ TestOpenConnect
    \/ TestOpenRead
    \/ TestOpenDetach

SpecOpen == Init /\ [][TestOpenNext]_vars

\* ------------------------------------------------------- run_tray_icon
\* The tray shell's event loop and the device query a click starts.  The loop
\* handles one user event at a time; the query task and the per-device tasks
\* it spawns run beside it and reach it only through proxy.send_event.
MaxClicks == 2

ClickEvent == [type |-> "Click", devices |-> <<>>]
QuitEvent == [type |-> "Menu", devices |-> <<>>]
DeviceInfo(labels) == [type |-> "DeviceInfo", devices |-> labels]

\* format!("DualSense {} {}: ..", idx + 1, connection_type, ..)
Label(idx, kind) == [idx |-> idx + 1, kind |-> kind]
\* MenuItem::new("No DualSense device found", ..)
NoDeviceFound == [idx |-> 0, kind |-> "none"]

\* DualSense::find_all(&hid).await? : on Err the task returns here.
on_find_all(found) == IF found THEN "join" ELSE "return"

\* One spawned per-device task: open_device(d).await?, then
\* ds.read_input_report().await.ok_or(..)? ; report is "Some" or "None".
query_task(o, r, f, report) ==
    LET opened == open_device(o, r, f)
    IN  IF ~opened.ok THEN opened
        ELSE IF report = "None" THEN Err("Message")
        ELSE Ok(opened.val)

\* proxy.send_event(event): the event is queued while the loop runs.
send_event(queue_, event) == IF running THEN Append(queue_, event) ELSE queue_

\* TrayIconEvent::set_event_handler: a click on the icon is forwarded.
TrayClicked ==
    /\ running
    /\ clicks < MaxClicks
    /\ clicks' = clicks + 1
    /\ events' = send_event(events, ClickEvent)
    /\ UNCHANGED <<mgrVars, codecVars, testVars, openVars, running, query_device_i,
                   device_info_items, qPc, qTask, qList, device_info>>

\* MenuEvent::set_event_handler: Quit is chosen in the menu.
QuitChosen ==
    /\ running
    /\ \A i \in DOMAIN events : events[i] # QuitEvent
    /\ events' = send_event(events, QuitEvent)
    /\ UNCHANGED <<mgrVars, codecVars, testVars, openVars, running, clicks, query_device_i,
                   device_info_items, qPc, qTask, qList, device_info>>

\* UserEvent::TrayIconEvent(Click): nothing while a query is shown as running;
\* otherwise the item is set and the query task spawned.
OnClick ==
    /\ running
    /\ events # <<>>
    /\ Head(events) = ClickEvent
    /\ events' = Tail(events)
    /\ IF query_device_i = "Some"
       THEN UNCHANGED <<query_device_i, qPc, qTask, qList, device_info>>
       ELSE /\ query_device_i' = "Some"
            /\ qPc' = "find_all"
            /\ qTask' = [d \in Devices |-> "none"]
            /\ qList' = <<>>
            /\ device_info' = <<>>
    /\ UNCHANGED <<mgrVars, codecVars, testVars, openVars, running, clicks, device_info_items>>

\* UserEvent::MenuEvent(quit): ControlFlow::Exit
OnMenuEvent ==
    /\ running
    /\ events # <<>>
    /\ Head(events) = QuitEvent
    /\ events' = Tail(events)
    /\ running' = FALSE
    /\ UNCHANGED <<mgrVars, codecVars, testVars, openVars, clicks, query_device_i,
                   device_info_items, qPc, qTask, qList, device_info>>

\* UserEvent::DeviceInfo(devices): the item is taken and the labels shown.
OnDeviceInfo ==
    /\ running
    /\ events # <<>>
    /\ Head(events).type = "DeviceInfo"
    /\ events' = Tail(events)
    /\ query_device_i' = "None"
    /\ device_info_items' = IF Len(Head(events).devices) = 0 THEN <<NoDeviceFound>>
                             ELSE Head(events).devices
    /\ UNCHANGED <<mgrVars, codecVars, testVars, openVars, running, clicks,
                   qPc, qTask, qList, device_info>>

\* The query task: find_all, one task spawned per device found; with no device
\* the loop over the tasks is empty and DeviceInfo is sent at once.
QueryFindAll ==
    /\ qPc = "find_all"
    /\ \E found \in BOOLEAN :
         IF on_find_all(found) = "return"
         THEN /\ qPc' = "ended"
              /\ UNCHANGED <<qTask, qList, events>>
         ELSE \E order \in Orders({d \in Devices : present[d]}) :
                /\ qList' = order
                /\ qTask' = [d \in Devices |->
                               IF present[d] THEN "pending" ELSE "none"]
                /\ qPc' = IF order = <<>> THEN "ended" ELSE "join"
                /\ events' = IF order = <<>> THEN send_event(events, DeviceInfo(device_info))
                              ELSE events
    /\ UNCHANGED <<mgrVars, codecVars, testVars, openVars, running, clicks, query_device_i,
                   device_info_items, device_info>>

\* A per-device task completes (or blocks in open_device's feature request).
QueryTaskDone(d) ==
    /\ qTask[d] = "pending"
    /\ \E o \in OpenOutcomes(present[d]), r \in FirstReadOutcomes(d, present[d]),
          f \in FeatureOutcomes, report \in {"Some", "None"} :
         qTask' = [qTask EXCEPT ![d] = OpenOutcome(query_task(o, r, f, report))]
    /\ UNCHANGED <<mgrVars, codecVars, testVars, openVars, running, events, clicks,
                   query_device_i, device_info_items, qPc, qList, device_info>>

\* for (idx, task) in tasks: the awaited task has completed; after the last one
\* DeviceInfo is sent and the query task ends.
QueryJoin ==
    /\ qPc = "join"
    /\ qTask[Head(qList)] \notin {"pending", "blocked"}
    /\ LET d == Head(qList)
           idx == Cardinality({e \in Devices : qTask[e] # "none"}) - Len(qList)
           labels == IF qTask[d] \in Kinds THEN Append(device_info, Label(idx, qTask[d]))
                     ELSE device_info
       IN  /\ device_info' = labels
           /\ qList' = Tail(qList)
           /\ qPc' = IF Tail(qList) = <<>> THEN "ended" ELSE "join"
           /\ events' = IF Tail(qList) = <<>> THEN send_event(events, DeviceInfo(labels))
                         ELSE events
    /\ UNCHANGED <<mgrVars, codecVars, testVars, openVars, running, clicks, query_device_i,
                   device_info_items, qTask>>

TrayNext ==
    \/ TrayClicked
    \/ QuitChosen
    \/ OnClick
    \/ OnMenuEvent
    \/ OnDeviceInfo
    \/ QueryFindAll
    \/ \E d \in Devices : QueryTaskDone(d)
    \/ QueryJoin

SpecTray == Init /\ [][TrayNext]_vars

\* ------------------------------------------------------- claims
EventsOf(evs, type) == SelectSeq(evs, LAMBDA e : e.type = type)
CountOf(evs, e) == Cardinality({i \in DOMAIN evs : evs[i] = e})

\* C1: when the status task's read on a session that is in the registry returns
\* length 0, the session is removed from the registry and exactly one
\* Disconnected event for the device is delivered.
C1_ZeroReadDisconnects ==
    (note.op = "status" /\ note.out = "zero" /\ note.pre)
        => /\ opened_devices[note.dev] = NoSession
           /\ emit = <<Disconnected(note.dev)>>

\* C2 as stated: every BatteryUpdate(d) and every Disconnected(d) delivered is
\* preceded by a Connected(d).
C2_ConnectedPrecedes ==
    \A i \in DOMAIN emit :
        emit[i].type \in {"BatteryUpdate", "Disconnected"} => emit[i].dev \in everConnected

\* C2 amended: every BatteryUpdate(d) is preceded by a Connected(d), and so is
\* every Disconnected(d) for a device that had a registry entry when its hotplug
\* notification was processed.
C2_ConnectedPrecedesForSessions ==
    \A i \in DOMAIN emit :
        /\ emit[i].type = "BatteryUpdate" => emit[i].dev \in everConnected
        /\ (emit[i].type = "Disconnected" /\ note.op = "close_device" /\ note.pre)
              => emit[i].dev \in everConnected

\* The Disconnected of a device that has a session.
C2_Witness ==
    \E d \in Devices :
        /\ emit = <<Disconnected(d)>>
        /\ note.op = "close_device" /\ note.pre
        /\ d \in everConnected

\* C3: the registry holds at most one session per DeviceId, and every DeviceId in
\* it has a Connected event delivered that no Disconnected event follows.
C3_RegistryInvariant ==
    /\ opened_devices \in [Devices -> Kinds \cup {NoSession}]
    /\ \A d \in Devices : opened_devices[d] # NoSession => lastCD[d] = "C"

\* d is inserted while it is registered already (two opens of the same device).
C3_Witness ==
    \E d \in Devices :
        /\ note.op = "insert_device" /\ note.dev = d /\ note.pre
        /\ opened_devices[d] # NoSession

\* C4: the registry mutex is not held when the handler is invoked, and
\* update_status holds no lock while its reads are in flight.
C4_NoLockAtEmit ==
    /\ emit # <<>> => emitLock = NoTask
    /\ \A c \in Callers : stIo[c] # "none" => lock # c

\* A BatteryUpdate delivered by a refresh, after its snapshot was taken.
C4_Witness ==
    /\ note.op = "status" /\ note.task = "us"
    /\ emit = <<BatteryUpdate(note.dev)>>

\* C5: after a Disconnected(d), no BatteryUpdate(d) is delivered unless a
\* Connected(d) is delivered first.
C5_NoUpdateAfterDisconnected ==
    \A i \in DOMAIN emit :
        emit[i].type = "BatteryUpdate" => lastCD[emit[i].dev] # "D"

\* C6: taking a hotplug Connected notification for a device that is in the
\* registry opens nothing, leaves the registry as it is and emits no event.
C6_ConnectedKnownNoop ==
    [][(/\ pnpPc = "watch"
        /\ queue # <<>>
        /\ Head(queue).type = "Connected"
        /\ opened_devices[Head(queue).dev] # NoSession
        /\ queue' = Tail(queue))
          => /\ opened_devices' = opened_devices
             /\ emit' = <<>>
             /\ pnpPc' = "watch"
             /\ pnpOpen' = "none"
             /\ stIo' = stIo]_vars

\* A hotplug Connected taken for a device that has a session.
C6_Witness == note.op = "pnp_connected" /\ note.pre

\* C7: processing a hotplug Disconnected(d) leaves d absent from the registry
\* and emits exactly one Disconnected(d), with or without a registry entry.
C7_CloseDevice ==
    note.op = "close_device"
        => /\ opened_devices[note.dev] = NoSession
           /\ emit = <<Disconnected(note.dev)>>

\* A hotplug Disconnected taken for a device that has no session.
C7_Witness == note.op = "close_device" /\ ~note.pre

\* C8: open_all_devices inserts every opened device and emits one Connected for
\* it; a failed open leaves no entry, no event and no error; the only error is
\* the enumeration's, and zero devices give zero events and Ok.
C8_OpenAll ==
    /\ (note.op = "insert_device" /\ note.task = "oa")
          => /\ opened_devices[note.dev] = note.out
             /\ emit = <<Connected(note.dev)>>
    /\ note.op = "open_all_skip"
          => /\ emit = <<>>
             /\ (opened_devices[note.dev] # NoSession) = note.pre
    /\ oaPc = "done"
          => /\ oaRet \in {"Ok", "EnumErr"}
             /\ oaRet = "EnumErr" => \A d \in Devices : oaTask[d] = "none"
             /\ \A d \in Devices :
                  CountOf(oaEmitted, Connected(d)) = IF oaTask[d] \in Kinds THEN 1 ELSE 0
             /\ Len(EventsOf(oaEmitted, "Connected")) = Len(oaEmitted)

\* One open failed, a later one succeeded.
C8_Witness ==
    /\ oaPc = "done" /\ oaRet = "Ok"
    /\ \E d1, d2 \in Devices :
         /\ oaTask[d1] = "err" /\ oaTask[d2] \in Kinds
         /\ oaEmitted = <<Connected(d2)>>
         /\ Len(oaList) = 0

\* C9: a refresh reads every session of its snapshot, emits one BatteryUpdate
\* for each read that succeeds whatever the other reads did; no read of it
\* blocks and, until it is done, one of its steps can be taken.
C9_RefreshIsolatesFailures ==
    /\ \A c \in Callers : stIo[c] # "blocked"
    /\ usPc = "run" => ENABLED UpdateStatusProgress
    /\ usPc = "done"
          => /\ {usTried[i] : i \in DOMAIN usTried} = {d \in Devices : usSnap[d] # NoSession}
             /\ Len(usTried) = Cardinality({d \in Devices : usSnap[d] # NoSession})
             /\ \A d \in Devices :
                  CountOf(usEmitted, BatteryUpdate(d)) = IF d \in usOk THEN 1 ELSE 0
             /\ Len(EventsOf(usEmitted, "BatteryUpdate")) = Len(usEmitted)

\* The first read of the refresh failed, the second succeeded.
C9_Witness ==
    /\ usPc = "done"
    /\ Len(usTried) = 2
    /\ usTried[1] \notin usOk
    /\ usEmitted = <<BatteryUpdate(usTried[2])>>

\* C10: the BatteryUpdate of a session whose read succeeds is emitted within one
\* timeout window of the refresh: no read of the refresh has timed out before it.
C10_UpdatesWithinOneTimeout ==
    (note.op = "status" /\ note.task = "us" /\ note.out = "ok") => ~usWaited

\* C11: from_report_size returns none for every length other than 64 and 78,
\* and a read_input_report whose read returns a length other than 0, 64 and 78
\* fails with an error and yields no report.
C11_ForeignLengthRejected ==
    /\ (cOp = "from_report_size"
          /\ cIn.size \notin {DS_INPUT_REPORT_USB_SIZE, DS_INPUT_REPORT_BT_SIZE})
          => cOut.kind = "None"
    /\ (cOp = "read_input_report" /\ cIn.r.st = "ok"
          /\ cIn.r.v \notin {0, DS_INPUT_REPORT_USB_SIZE, DS_INPUT_REPORT_BT_SIZE})
          => ~cOut.ok

\* C12: in open_device, a first read that returns length 0 or that does not
\* complete before the read timeout makes the open fail with Disconnected.
C12_OpenFirstReadDisconnected ==
    (cOp = "open_device" /\ cIn.o.st = "ok"
       /\ (cIn.r.st = "hang" \/ (cIn.r.st = "ok" /\ cIn.r.v = 0)))
        => ~cOut.ok /\ cOut.err = "Disconnected"

\* C13: a device open that does not complete before the open timeout fails with
\* NotConnected (open_device, connect); a read that does not complete before the
\* read timeout (open_device, read_input_report), and a read_input_report read
\* of length 0, fail with Disconnected.
C13_TimerWinsDesignatedError ==
    /\ (cOp \in {"open_device", "connect"} /\ cIn.o.st = "hang")
          => ~cOut.ok /\ cOut.err = "NotConnected"
    /\ (cOp = "open_device" /\ cIn.o.st = "ok" /\ cIn.r.st = "hang")
          => ~cOut.ok /\ cOut.err = "Disconnected"
    /\ (cOp = "read_input_report" /\ (cIn.r.st = "hang" \/ (cIn.r.st = "ok" /\ cIn.r.v = 0)))
          => ~cOut.ok /\ cOut.err = "Disconnected"

\* A read_input_report whose read never completes.
C13_Witness == cOp = "read_input_report" /\ cIn.r.st = "hang" /\ cOut.err = "Disconnected"

\* C14: no operation blocks: no open of open_all_devices or of the hotplug
\* path, and no connect or read of a status task, waits for ever on a device
\* that does not answer.
C14_NoOperationBlocks ==
    /\ \A d \in Devices : oaTask[d] # "blocked"
    /\ pnpOpen # "blocked"
    /\ \A c \in Callers : stIo[c] # "blocked"

\* C15: reading and decoding a report never aborts the process, whatever the
\* read's length and the buffer's bytes: the result is a report or an error.
C15_DecodeNeverPanics ==
    cOp \in {"read_input_report", "hid_read_report", "sync_read_report"}
        => cOut.err # "panic"

C17_BatteryPair ==
    /\ cOp = "battery"
          => cOut.pair = <<cIn.status % 16, IF cIn.status \div 16 # 0 THEN 1 ELSE 0>>
    /\ (cOp = "status_task" /\ cIn.r.st = "ok" /\ cIn.r.v # 0)
          => LET s == DeviceData(ReportId(cIn.kind), cIn.seed, cIn.r.v)
                          [IF cIn.kind = "USB" THEN 53 ELSE 54]
             IN  /\ cOut.ok
                 /\ cOut.pair = <<s % 16, IF s \div 16 # 0 THEN 1 ELSE 0>>

\* C18 as stated: the decoded Y is ((xhi_ylo & 0x0F) << 4) | y_hi.
C18_TouchYAsStated ==
    cOp = "touch_point" => cOut.y = BitOr((cIn.xhi_ylo % 16) * 16, cIn.y_hi)

\* C18 amended: the decoded Y is (y_hi << 4) | (xhi_ylo & 0x0F): y_hi holds
\* Y's high eight bits, the low nibble of xhi_ylo its low four.
C18_TouchY ==
    cOp = "touch_point" => cOut.y = (cIn.y_hi * 16) + (cIn.xhi_ylo % 16)

\* A record whose two Y parts are both nonzero and differ.
C18_Witness ==
    cOp = "touch_point" /\ cIn.y_hi = 240 /\ cIn.xhi_ylo = 21 /\ cOut.y = 3845

\* C19: a record that packs (X, Y), both in 0..4095, decodes to X and Y; and
\* every record decodes to coordinates in 0..4095.
C19_TouchRoundTrip ==
    /\ cOp = "touch_record" => cOut.x = cIn.X /\ cOut.y = cIn.Y
    /\ cOp \in {"touch_record", "touch_point"} => cOut.x \in 0..4095 /\ cOut.y \in 0..4095

\* The largest X with a Y whose nibbles alternate.
C19_Witness ==
    cOp = "touch_record" /\ cIn.X = 4095 /\ cIn.Y = 2730 /\ cOut.x = 4095 /\ cOut.y = 2730

C21_Handled == queue = <<>> /\ pnpPc = "watch"

\* A step that takes a notification takes the head of the stream, and only
\* when the handling of the last has returned; a Disconnected is delivered only
\* when no Connect is still being handled.
C21_TakenInTurn ==
    /\ (Len(queue') < Len(queue))
          => /\ queue' = Tail(queue)
             /\ pnpPc = "watch" /\ pnpOpen = "none" /\ stIo["pnp"] = "none"
    /\ (\E i \in DOMAIN emit' : emit'[i].type = "Disconnected")
          => pnpDev = NoDevice

\* C21: watch_pnp handles hotplug notifications one at a time in arrival order:
\* a notification is taken from the head of the stream and only when the
\* handling of the last (open, registry change, events, status task) has
\* returned.  So a Disconnected(d) is delivered only when no Connect(d) is
\* still being handled, and once the notifications are all handled a detached
\* device is absent from the registry and its last Connected/Disconnected event
\* is not a Connected.
C21_PnpInOrder ==
    /\ [](\A d \in Devices :
            (C21_Handled /\ ~present[d])
                => (opened_devices[d] = NoSession /\ lastCD[d] # "C"))
    /\ [][C21_TakenInTurn]_vars

\* Connect(d) then Disconnect(d), both handled: d was opened, registered and
\* announced, then removed and announced as disconnected.
C21_Witness ==
    /\ C21_Handled
    /\ note.op = "close_device" /\ note.pre
    /\ note.dev \in everConnected
    /\ lastCD[note.dev] = "D"
    /\ opened_devices[note.dev] = NoSession

\* C22: a read_input_report whose read returns 64 or 78 bytes succeeds, decodes
\* the report at the offset of the kind classified from that length (1 for 64,
\* 2 for 78) whatever kind the connection cached at connect, and leaves the
\* connection with the classified kind.
C22_DecodedWithReadKind ==
    (cOp = "read_input_report" /\ cIn.r.st = "ok" /\ from_report_size(cIn.r.v) # "None")
        => /\ cOut.ok
           /\ cOut.report =
                 InputReportAt(ReadBuffer(DeviceData(cIn.id, cIn.seed, cIn.r.v), cIn.r.v),
                               IF cIn.r.v = DS_INPUT_REPORT_USB_SIZE THEN 1 ELSE 2)
           /\ cOut.kind = from_report_size(cIn.r.v)

\* C23: open_device calls read_feature_report exactly when its first read is
\* classified Bluetooth, and what the call returns does not change the result:
\* whether the request succeeds or fails, the open returns a Bluetooth session.
C23_FeatureRequestBestEffort ==
    cOp = "open_device" =>
        /\ cOut.requested <=>
              (cIn.o.st = "ok" /\ cIn.r.st = "ok" /\ cIn.r.v = DS_INPUT_REPORT_BT_SIZE)
        /\ (cOut.requested /\ cIn.f.st \in {"ok", "io_err"})
              => cOut.ok /\ cOut.val = "BT"
        /\ (~cOut.requested /\ cOut.ok) => cOut.val = "USB"

\* An open whose first read has 78 bytes and whose feature request fails.
C23_Witness ==
    /\ cOp = "open_device" /\ cOut.requested /\ cIn.f.st = "io_err"
    /\ cOut.ok /\ cOut.val = "BT"

C25_NoDoubleConnected ==
    [][\A i \in DOMAIN emit' :
          emit'[i].type = "Connected" => lastCD[emit'[i].dev] # "C"]_vars

\* C26: no stale registry entry: a device that is detached, whose Disconnected
\* notification has been handled and for which the watcher handles no Connect,
\* is not in the registry, also when an open of it was in flight while the
\* Disconnected was handled.
C26_NoStaleEntry ==
    \A d \in Devices :
        (/\ ~present[d]
         /\ \A i \in DOMAIN queue : queue[i].dev # d
         /\ pnpDev # d)
            => opened_devices[d] = NoSession

\* C27: every query a click starts delivers a DeviceInfo to the event loop, so
\* the "Querying device info" item is cleared again: while the loop runs and
\* the item is set, the query task is still at work or its DeviceInfo is on its
\* way to the loop.
C27_QueryAnswered ==
    (running /\ query_device_i = "Some")
        => \/ qPc \in {"find_all", "join"}
           \/ \E i \in DOMAIN events : events[i].type = "DeviceInfo"

====
